---- MODULE Spec2Model ----
(***************************************************************************)
(* State-machine model of the LVGL T9 keyboard widget                      *)
(* (src/src/lv_keyboard_t9.c): the file-scope state of the widget, the     *)
(* button event callback t9_btn_event_cb with every branch it has (digit   *)
(* click, digit long-press, the six helper buttons), the two popover       *)
(* callbacks, and the LVGL tick counter the callback reads.                *)
(*                                                                         *)
(* C strings are sequences of one-character strings without their         *)
(* terminator; reading at offset Len(s) yields NUL, reading further is an  *)
(* out-of-bounds read.  A uint32_t is a pair <<hi, lo>> of 16-bit halves,  *)
(* so that the tick arithmetic keeps its 32-bit width.                     *)
(***************************************************************************)
EXTENDS Integers, Sequences, FiniteSets, TLC

VARIABLES
    t9_mode,                 \* static t9_mode_t t9_mode
    t9_btn_cycle_idx,        \* static uint8_t  t9_btn_cycle_idx[T9_BUTTON_COUNT]
    t9_btn_last_press_time,  \* static uint32_t t9_btn_last_press_time[T9_BUTTON_COUNT]
    last_char_idx,           \* static int last_char_idx (local static of t9_btn_event_cb)
    linked_ta,               \* static lv_obj_t *linked_ta
    keyboards,               \* the keyboard objects: the textarea each was created for
    textarea,                \* the textarea objects: text and cursor position of each
    popovers,                \* the popover objects alive on the screen, oldest first
    event_cb,                \* user data of each keyboard object: the registered callback
    hidden,                  \* LV_OBJ_FLAG_HIDDEN of each keyboard object
    tick,                    \* what lv_tick_get() returns now
    hist,                    \* history: what the last handler that ran did
    run,                     \* history: the run of clicks on one key in progress
    origin,                  \* history: which click committed each character of a text
    env                      \* history: keys used, clock advances, real time since each key's click

vars == <<t9_mode, t9_btn_cycle_idx, t9_btn_last_press_time, last_char_idx,
          linked_ta, keyboards, textarea, popovers, event_cb, hidden, tick, hist, run,
          origin, env>>

----------------------------------------------------------------------------
(* Bounds of the exploration *)

\* number of handler invocations and clock advances in a run of Spec
MaxEvents == 5
\* the same in a run of SpecRun, where a click on the digit key that the
\* previous handler invocation clicked is not counted
MaxRunEvents == 2
\* the same in a run of SpecTwo, where a second keyboard may be created
MaxTwoEvents == 4
\* the same in a run of SpecWrap, which starts just before the tick wraps
MaxWrapEvents == 4
\* a click on a popover picks one of its first MaxSymPick symbol buttons
MaxSymPick == 2
\* number of reads past a string's terminator in a run
MaxOobReads == 1
\* the digit keys clicked and long-pressed in a run of Spec, by char_idx:
\* keys '1', '2', '7', '0'; a run of SpecRun uses all ten
Keys == {0, 1, 6, 9}

----------------------------------------------------------------------------
(* Program constants and tables *)

T9_KEYBOARD_COLS == 4
T9_KEYBOARD_ROWS == 4
T9_BUTTON_COUNT == 10
T9_CYCLE_TIMEOUT_MS == 1000

T9_MODE_LOWER == "T9_MODE_LOWER"
T9_MODE_UPPER == "T9_MODE_UPPER"
T9_MODE_NUMBERS == "T9_MODE_NUMBERS"
t9_mode_t == {T9_MODE_LOWER, T9_MODE_UPPER, T9_MODE_NUMBERS}

LV_KEYBOARD_T9_EVENT_READY == "LV_KEYBOARD_T9_EVENT_READY"
LV_KEYBOARD_T9_EVENT_CANCEL == "LV_KEYBOARD_T9_EVENT_CANCEL"

LV_EVENT_CLICKED == "LV_EVENT_CLICKED"
LV_EVENT_LONG_PRESSED == "LV_EVENT_LONG_PRESSED"

LV_SYMBOL_BACKSPACE == "LV_SYMBOL_BACKSPACE"
LV_SYMBOL_OK == "LV_SYMBOL_OK"
LV_SYMBOL_CLOSE == "LV_SYMBOL_CLOSE"
LV_SYMBOL_NEW_LINE == "LV_SYMBOL_NEW_LINE"

NULL == "NULL"
\* the string terminator '\0'
NUL == "NUL"
\* the grave accent character (0x60), which a TLA+ string cannot hold
GRAVE == "GRAVE"

\* t9_btn_labels[row][col], rows and columns counted from 0
t9_btn_labels ==
    << <<"1", "2", "3", LV_SYMBOL_BACKSPACE>>,
       <<"4", "5", "6", LV_SYMBOL_OK>>,
       <<"7", "8", "9", LV_SYMBOL_CLOSE>>,
       <<"abc", "0", "space", LV_SYMBOL_NEW_LINE>> >>

BtnLabel(row, col) == t9_btn_labels[row + 1][col + 1]

t9_btn_symbols_0 ==
    <<"!", "\"", "#", "$", "%", "&", "'", "(", ")", "*", "+", ",", "-", ".", "/">>

t9_btn_symbols_1 ==
    <<":", ";", "<", "=", ">", "?", "@", "[", "\\", "]", "^", "_", GRAVE, "{", "|", "}", "~">>

\* the three tables are indexed by char_idx 0..9; entry char_idx is element char_idx + 1
t9_btn_chars_lower ==
    << NULL, <<"a", "b", "c", "2">>, <<"d", "e", "f", "3">>, <<"g", "h", "i", "4">>,
       <<"j", "k", "l", "5">>, <<"m", "n", "o", "6">>, <<"p", "q", "r", "s", "7">>,
       <<"t", "u", "v", "8">>, <<"w", "x", "y", "z", "9">>, NULL >>

t9_btn_chars_upper ==
    << NULL, <<"A", "B", "C", "2">>, <<"D", "E", "F", "3">>, <<"G", "H", "I", "4">>,
       <<"J", "K", "L", "5">>, <<"M", "N", "O", "6">>, <<"P", "Q", "R", "S", "7">>,
       <<"T", "U", "V", "8">>, <<"W", "X", "Y", "Z", "9">>, NULL >>

t9_btn_chars_numbers ==
    << <<"1">>, <<"2">>, <<"3">>, <<"4">>, <<"5">>, <<"6">>, <<"7">>, <<"8">>, <<"9">>, <<"0">> >>

CharIdx == 0 .. (T9_BUTTON_COUNT - 1)

\* get_btn_char_idx(row, col): the key index of a grid cell, -1 for a helper button
get_btn_char_idx(row, col) ==
    IF row = 0 /\ col < 3 THEN col
    ELSE IF row = 1 /\ col < 3 THEN col + 3
    ELSE IF row = 2 /\ col < 3 THEN col + 6
    ELSE IF row = 3 /\ col = 1 THEN 9
    ELSE -1

----------------------------------------------------------------------------
(* uint32_t arithmetic on <<hi, lo>> halves *)

HalfWord == 2 ^ 16

U32(n) == <<n \div HalfWord, n % HalfWord>>

\* a + d (mod 2^32), for 0 <= d < 2^16
U32Add(a, d) ==
    LET lo == a[2] + d
    IN  <<(a[1] + (lo \div HalfWord)) % HalfWord, lo % HalfWord>>

\* mutant: the difference taken without wrapping, none when a is below b
U32SubNoWrap(a, b) ==
    IF a[1] < b[1] \/ (a[1] = b[1] /\ a[2] < b[2]) THEN <<0, 0>>
    ELSE LET lo == a[2] - b[2]
             borrow == IF lo < 0 THEN 1 ELSE 0
         IN  <<a[1] - b[1] - borrow, (lo + HalfWord) % HalfWord>>

\* a - b (mod 2^32)
U32Sub(a, b) ==
    LET lo == a[2] - b[2]
        borrow == IF lo < 0 THEN 1 ELSE 0
    IN  <<(a[1] - b[1] - borrow + HalfWord) % HalfWord, (lo + HalfWord) % HalfWord>>

\* a > n, for 0 <= n < 2^16
U32Gt(a, n) == a[1] > 0 \/ a[2] > n

----------------------------------------------------------------------------
(* The textarea collaborator (LVGL), as the widget uses it *)

TextAreas == {"ta1", "ta2"}

\* the keyboard objects that lv_keyboard_t9_init may return
Keyboards == {"kb1", "kb2"}

\* lv_textarea_set_cursor_pos: the position is clamped to the text
lv_textarea_set_cursor_pos(ta, pos) ==
    [ta EXCEPT !.cursor = IF pos > Len(ta.text) THEN Len(ta.text) ELSE pos]

\* lv_textarea_add_text with a one-character string: inserted at the cursor
lv_textarea_add_text(ta, c) ==
    [text |-> SubSeq(ta.text, 1, ta.cursor) \o <<c>>
                 \o SubSeq(ta.text, ta.cursor + 1, Len(ta.text)),
     cursor |-> ta.cursor + 1]

\* mutant: the character right of the cursor deleted (lv_textarea_delete_char_forward)
lv_textarea_delete_char_forward(ta) ==
    IF ta.cursor = Len(ta.text) THEN ta
    ELSE [text |-> SubSeq(ta.text, 1, ta.cursor)
                      \o SubSeq(ta.text, ta.cursor + 2, Len(ta.text)),
          cursor |-> ta.cursor]

\* lv_textarea_delete_char: deletes the character left of the cursor, if any
lv_textarea_delete_char(ta) ==
    IF ta.cursor = 0 THEN ta
    ELSE [text |-> SubSeq(ta.text, 1, ta.cursor - 1)
                      \o SubSeq(ta.text, ta.cursor + 1, Len(ta.text)),
          cursor |-> ta.cursor - 1]

\* the text of the linked textarea
Text == textarea[linked_ta].text

----------------------------------------------------------------------------
(* Pure parts of t9_btn_event_cb *)

\* the candidate string of a key: the symbol arrays for keys '1' and '0' in
\* every mode, the mode's table for the others
ActiveChars(char_idx, mode) ==
    IF char_idx = 0 THEN t9_btn_symbols_1
    ELSE IF char_idx = 9 THEN t9_btn_symbols_0
    ELSE IF mode = T9_MODE_NUMBERS THEN t9_btn_chars_numbers[char_idx + 1]
    ELSE IF mode = T9_MODE_UPPER THEN t9_btn_chars_upper[char_idx + 1]
    ELSE t9_btn_chars_lower[char_idx + 1]

\* mutant: the numbers branch of the long-press lost, the lower table shown
LongPressSymbolsNoNumbers(char_idx, mode) ==
    IF char_idx = 0 THEN t9_btn_symbols_1
    ELSE IF char_idx = 9 THEN t9_btn_symbols_0
    ELSE IF mode = T9_MODE_UPPER THEN t9_btn_chars_upper[char_idx + 1]
    ELSE t9_btn_chars_lower[char_idx + 1]

\* mutant: the two symbol arrays of the long-press swapped
LongPressSymbolsSwapped(char_idx, mode) ==
    IF char_idx = 0 THEN t9_btn_symbols_0
    ELSE IF char_idx = 9 THEN t9_btn_symbols_1
    ELSE IF mode = T9_MODE_NUMBERS THEN t9_btn_chars_numbers[char_idx + 1]
    ELSE IF mode = T9_MODE_UPPER THEN t9_btn_chars_upper[char_idx + 1]
    ELSE t9_btn_chars_lower[char_idx + 1]

\* mutant: the upper branch of the long-press lost
LongPressSymbolsNoUpper(char_idx, mode) ==
    IF char_idx = 0 THEN t9_btn_symbols_1
    ELSE IF char_idx = 9 THEN t9_btn_symbols_0
    ELSE IF mode = T9_MODE_NUMBERS THEN t9_btn_chars_numbers[char_idx + 1]
    ELSE t9_btn_chars_lower[char_idx + 1]

\* the symbols a long-press shows: symbols[0 .. symbol_count - 1]
LongPressSymbols(char_idx, mode) ==
    IF char_idx = 0 THEN t9_btn_symbols_1
    ELSE IF char_idx = 9 THEN t9_btn_symbols_0
    ELSE IF mode = T9_MODE_NUMBERS THEN t9_btn_chars_numbers[char_idx + 1]
    ELSE IF mode = T9_MODE_UPPER THEN t9_btn_chars_upper[char_idx + 1]
    ELSE t9_btn_chars_lower[char_idx + 1]

\* the bytes a read past the terminator may yield, one of each kind the
\* handler tells apart: the terminator, a space, any other byte
OobBytes == {NUL, " ", "?"}

\* chars[i]: the outcomes of reading offset i of a C string
ReadChar(chars, i) ==
    IF i < Len(chars) THEN {chars[i + 1]}
    ELSE IF i = Len(chars) THEN {NUL}
    ELSE OobBytes

\* mutant: a gap equal to the timeout times out as well
TimedOutAtBoundary(now, last) ==
    LET gap == U32Sub(now, last)
    IN  gap[1] > 0 \/ gap[2] >= T9_CYCLE_TIMEOUT_MS

\* now - t9_btn_last_press_time[char_idx] > T9_CYCLE_TIMEOUT_MS, in uint32_t
TimedOut(now, last) == U32Gt(U32Sub(now, last), T9_CYCLE_TIMEOUT_MS)

\* mutant: the timeout test lost
ResetCycleKeyOnly(char_idx, last_idx, now, last) == char_idx # last_idx

\* mutant: the comparison with the key clicked last lost
ResetCycleTimeOnly(char_idx, last_idx, now, last) == TimedOut(now, last)

\* bool reset_cycle
ResetCycle(char_idx, last_idx, now, last) ==
    char_idx # last_idx \/ TimedOut(now, last)

\* the branch at "if (reset_cycle || char_idx != last_char_idx || txt_len == 0)"
InsertBranch(reset_cycle, char_idx, last_idx, txt_len) ==
    reset_cycle \/ char_idx # last_idx \/ txt_len = 0

\* the insertion branch: cursor to the end, add, cursor after the new character
InsertAtEnd(ta, c) ==
    LET txt_len == Len(ta.text)
    IN  lv_textarea_set_cursor_pos(
            lv_textarea_add_text(lv_textarea_set_cursor_pos(ta, txt_len), c),
            txt_len + 1)

\* the replacement branch: cursor to the end, delete, add, cursor to the end
ReplaceLast(ta, c) ==
    LET txt_len == Len(ta.text)
    IN  lv_textarea_set_cursor_pos(
            lv_textarea_add_text(
                lv_textarea_delete_char(lv_textarea_set_cursor_pos(ta, txt_len)), c),
            txt_len)

\* mutant: the cycle position not advanced
NextCycleStuck(cycle) == cycle

\* (*cycle)++ on a uint8_t
NextCycle(cycle) == (cycle + 1) % 256

----------------------------------------------------------------------------
(* History kept beside the program state *)

\* the record of a handler that changed no text and delivered no notification
Quiet(kind, key) ==
    [kind |-> kind, key |-> key, prev |-> -1, gap |-> -1, idx |-> -1,
     char |-> NUL, op |-> "none", oob |-> FALSE, notified |-> "none"]

NoRun == [n |-> 0, base |-> <<>>]

\* what became of the text: a character appended, the last one replaced, ...
EditKind(old, new, c) ==
    IF new = Append(old, c) THEN "insert"
    ELSE IF old # <<>> /\ new = Append(SubSeq(old, 1, Len(old) - 1), c) THEN "replace"
    ELSE IF new = old THEN "none"
    ELSE "other"

\* a text without its last character; the empty text stays empty
DropLast(s) == IF s = <<>> THEN s ELSE SubSeq(s, 1, Len(s) - 1)

\* origin[ta][j] is the key whose latest click committed character j of the
\* text of ta, and -1 for a character that something else committed; a new
\* click on key char_idx makes the characters of its earlier clicks stale
Stale(o, char_idx) == [j \in 1 .. Len(o) |-> IF o[j] = char_idx THEN -1 ELSE o[j]]

\* a click that starts a run: the key is not the digit key clicked last, or
\* more than the timeout of real time has passed since it was clicked
StartsRun(char_idx) ==
    char_idx # last_char_idx \/ env.elapsed[char_idx] > T9_CYCLE_TIMEOUT_MS

\* one more event of the run
Budget == env.events < env.max

Spend == [env EXCEPT !.events = @ + 1]

\* a click on the key that the previous handler invocation clicked
Repeat(char_idx) == env.free /\ hist.kind = "click" /\ hist.key = char_idx

Explore(max, free, keys) ==
    [events |-> 0, max |-> max, free |-> free, keys |-> keys, oobs |-> 0,
     elapsed |-> [i \in CharIdx |-> -1]]

----------------------------------------------------------------------------
(* Initial state: one keyboard created by lv_keyboard_t9_init(parent, ta1) *)

CreatedAt(now) ==
    /\ t9_mode = T9_MODE_LOWER
    /\ t9_btn_cycle_idx = [i \in CharIdx |-> 0]
    /\ t9_btn_last_press_time = [i \in CharIdx |-> U32(0)]
    /\ last_char_idx = -1
    /\ linked_ta = "ta1"
    /\ keyboards = [kb \in Keyboards |-> IF kb = "kb1" THEN "ta1" ELSE NULL]
    /\ textarea = [t \in TextAreas |-> [text |-> <<>>, cursor |-> 0]]
    /\ popovers = <<>>
    /\ event_cb = [kb \in Keyboards |-> NULL]
    /\ hidden = [kb \in Keyboards |-> FALSE]
    /\ tick = now
    /\ hist = [kind |-> "none", key |-> -1, prev |-> -1, gap |-> -1, idx |-> -1,
               char |-> NUL, op |-> "none", oob |-> FALSE, notified |-> "none"]
    /\ run = NoRun
    /\ origin = [t \in TextAreas |-> <<>>]

Created == CreatedAt(U32(0))

\* the tick one timeout before it wraps: 2^32 - T9_CYCLE_TIMEOUT_MS
TickNearWrap == <<HalfWord - 1, HalfWord - T9_CYCLE_TIMEOUT_MS>>

Init == Created /\ env = Explore(MaxEvents, FALSE, Keys)

InitRun == Created /\ env = Explore(MaxRunEvents, TRUE, CharIdx)

InitTwo == Created /\ env = Explore(MaxTwoEvents, FALSE, Keys)

\* the keyboard created when the system has run for almost 2^32 ms
InitWrap == CreatedAt(TickNearWrap) /\ env = Explore(MaxWrapEvents, FALSE, Keys)

----------------------------------------------------------------------------
(* The clock *)

\* the advances of the clock explored: half the timeout, the timeout, one more
TickSteps == {T9_CYCLE_TIMEOUT_MS \div 2, T9_CYCLE_TIMEOUT_MS, T9_CYCLE_TIMEOUT_MS + 1}

Tick(d) ==
    /\ Budget
    /\ tick' = U32Add(tick, d)
    /\ env' = [env EXCEPT !.events = @ + 1,
                          !.elapsed = [i \in CharIdx |->
                                         IF @[i] < 0 THEN -1 ELSE @[i] + d]]
    /\ UNCHANGED <<t9_mode, t9_btn_cycle_idx, t9_btn_last_press_time, last_char_idx,
                   linked_ta, keyboards, textarea, popovers, event_cb, hidden, hist, run, origin>>

----------------------------------------------------------------------------
(* t9_btn_event_cb: a click on a digit key *)

DigitClick(char_idx) ==
    LET now == tick
        reset_cycle == ResetCycle(char_idx, last_char_idx, now,
                                  t9_btn_last_press_time[char_idx])
        idx0 == IF reset_cycle THEN 0 ELSE t9_btn_cycle_idx[char_idx]
        chars == ActiveChars(char_idx, t9_mode)
        oob == idx0 > Len(chars)
    IN  /\ char_idx \in env.keys
        /\ Repeat(char_idx) \/ Budget
        /\ oob => env.oobs < MaxOobReads
        /\ \E raw \in ReadChar(chars, idx0) :
             LET cycle == IF raw = NUL THEN 0 ELSE idx0
                 c == IF raw = NUL THEN chars[1] ELSE raw
                 edits == linked_ta # NULL /\ c # " "
                 ta == textarea[linked_ta]
                 insert == InsertBranch(reset_cycle, char_idx, last_char_idx, Len(ta.text))
                 continues == run.n > 0 /\ hist.kind = "click" /\ hist.key = char_idx
             IN  /\ textarea' =
                      IF ~edits THEN textarea
                      ELSE [textarea EXCEPT ![linked_ta] =
                              IF insert THEN InsertAtEnd(ta, c) ELSE ReplaceLast(ta, c)]
                 /\ t9_btn_cycle_idx' = [t9_btn_cycle_idx EXCEPT ![char_idx] = NextCycle(cycle)]
                 /\ hist' = [kind |-> "click", key |-> char_idx,
                             prev |-> last_char_idx, gap |-> env.elapsed[char_idx],
                             idx |-> cycle, char |-> c,
                             op |-> EditKind(Text, textarea'[linked_ta].text, c),
                             oob |-> oob, notified |-> "none"]
                 /\ run' = IF StartsRun(char_idx) THEN [n |-> 1, base |-> Text]
                           ELSE IF continues
                                THEN [run EXCEPT !.n = IF @ > Len(chars) THEN Len(chars) + 2
                                                       ELSE @ + 1]
                                ELSE NoRun
                 /\ origin' =
                      IF linked_ta = NULL THEN origin
                      ELSE [origin EXCEPT ![linked_ta] =
                              IF ~edits THEN Stale(@, char_idx)
                              ELSE IF insert THEN Append(Stale(@, char_idx), char_idx)
                              ELSE Append(DropLast(Stale(@, char_idx)), char_idx)]
        /\ t9_btn_last_press_time' = [t9_btn_last_press_time EXCEPT ![char_idx] = now]
        /\ last_char_idx' = char_idx
        /\ env' = [env EXCEPT !.events = IF Repeat(char_idx) THEN @ ELSE @ + 1,
                              !.oobs = IF oob THEN @ + 1 ELSE @,
                              !.elapsed[char_idx] = 0]
        /\ UNCHANGED <<t9_mode, linked_ta, keyboards, popovers, event_cb, hidden, tick>>

----------------------------------------------------------------------------
(* t9_btn_event_cb: a long-press on a digit key, and the popover it shows *)

\* t9_show_symbol_popover: one more popover on the screen, a button per symbol
t9_show_symbol_popover(symbols) == Append(popovers, symbols)

DigitLongPress(char_idx) ==
    /\ char_idx \in env.keys
    /\ Budget
    /\ popovers' = t9_show_symbol_popover(LongPressSymbols(char_idx, t9_mode))
    /\ hist' = Quiet("long", char_idx)
    /\ run' = NoRun
    /\ env' = Spend
    /\ UNCHANGED <<t9_mode, t9_btn_cycle_idx, t9_btn_last_press_time, last_char_idx,
                   linked_ta, keyboards, textarea, event_cb, hidden, tick, origin>>

\* mutant: the popover is not deleted
DeletePopoverKept(p) == popovers

\* lv_obj_del(parent): the popover is gone
DeletePopover(p) ==
    SubSeq(popovers, 1, p - 1) \o SubSeq(popovers, p + 1, Len(popovers))

\* t9_symbol_btn_event_cb: a click on symbol button i of popover p
t9_symbol_btn_event_cb(p, i) ==
    LET sym == popovers[p][i]
    IN  /\ Budget
        /\ textarea' = IF linked_ta = NULL THEN textarea
                       ELSE [textarea EXCEPT ![linked_ta] = lv_textarea_add_text(@, sym)]
        /\ popovers' = DeletePopover(p)
        /\ origin' = IF linked_ta = NULL THEN origin
                     ELSE [origin EXCEPT ![linked_ta] = Append(@, -1)]
        /\ hist' = [Quiet("sym", -1) EXCEPT !.char = sym, !.op = "insert"]
        /\ run' = NoRun
        /\ env' = Spend
        /\ UNCHANGED <<t9_mode, t9_btn_cycle_idx, t9_btn_last_press_time, last_char_idx,
                       linked_ta, keyboards, event_cb, hidden, tick>>

\* t9_popover_close_btn_event_cb: a click on the close button of popover p
t9_popover_close_btn_event_cb(p) ==
    /\ Budget
    /\ popovers' = DeletePopover(p)
    /\ hist' = Quiet("dismiss", -1)
    /\ run' = NoRun
    /\ env' = Spend
    /\ UNCHANGED <<t9_mode, t9_btn_cycle_idx, t9_btn_last_press_time, last_char_idx,
                   linked_ta, keyboards, textarea, event_cb, hidden, tick, origin>>

----------------------------------------------------------------------------
(* t9_btn_event_cb: the helper buttons, told apart by their label *)

BackspaceClick ==
    /\ Budget
    /\ textarea' = IF linked_ta = NULL THEN textarea
                   ELSE [textarea EXCEPT ![linked_ta] = lv_textarea_delete_char(@)]
    /\ origin' = IF linked_ta = NULL THEN origin
                 ELSE [origin EXCEPT ![linked_ta] = DropLast(@)]
    /\ hist' = [Quiet("backspace", -1) EXCEPT
                   !.op = IF linked_ta # NULL /\ textarea[linked_ta].cursor > 0
                          THEN "delete" ELSE "none"]
    /\ run' = NoRun
    /\ env' = Spend
    /\ UNCHANGED <<t9_mode, t9_btn_cycle_idx, t9_btn_last_press_time, last_char_idx,
                   linked_ta, keyboards, popovers, event_cb, hidden, tick>>

\* OK and Close: the callback, when one is registered, then the keyboard is hidden
NotifyClick(keyboard, kind, event) ==
    /\ Budget
    /\ hidden' = [hidden EXCEPT ![keyboard] = TRUE]
    /\ hist' = [Quiet(kind, -1) EXCEPT
                   !.notified = IF event_cb[keyboard] # NULL THEN event ELSE "none"]
    /\ run' = NoRun
    /\ env' = Spend
    /\ UNCHANGED <<t9_mode, t9_btn_cycle_idx, t9_btn_last_press_time, last_char_idx,
                   linked_ta, keyboards, textarea, popovers, event_cb, tick, origin>>

\* mutant: the OK button reports the cancel event
OkClickCancels(keyboard) == NotifyClick(keyboard, "ok", LV_KEYBOARD_T9_EVENT_CANCEL)

OkClick(keyboard) == NotifyClick(keyboard, "ok", LV_KEYBOARD_T9_EVENT_READY)

CloseClick(keyboard) == NotifyClick(keyboard, "close", LV_KEYBOARD_T9_EVENT_CANCEL)

\* mutant: the return in numbers mode lost
AbcToggleUnguarded(mode) ==
    IF mode = T9_MODE_LOWER THEN T9_MODE_UPPER ELSE T9_MODE_LOWER

\* the mode after the "abc" button
AbcToggle(mode) ==
    IF mode = T9_MODE_NUMBERS THEN mode
    ELSE IF mode = T9_MODE_LOWER THEN T9_MODE_UPPER ELSE T9_MODE_LOWER

\* mutant: numbers mode left for upper
NumToggleToUpper(mode) ==
    IF mode = T9_MODE_NUMBERS THEN T9_MODE_UPPER ELSE T9_MODE_NUMBERS

\* the mode after the LV_SYMBOL_NEW_LINE button
NumToggle(mode) ==
    IF mode = T9_MODE_NUMBERS THEN T9_MODE_LOWER ELSE T9_MODE_NUMBERS

\* the "abc" button: nothing in numbers mode, else lower <-> upper
AbcClick ==
    /\ Budget
    /\ t9_mode' = AbcToggle(t9_mode)
    /\ hist' = Quiet(IF t9_mode = T9_MODE_NUMBERS THEN "abc_ignored" ELSE "abc", -1)
    /\ run' = NoRun
    /\ env' = Spend
    /\ UNCHANGED <<t9_btn_cycle_idx, t9_btn_last_press_time, last_char_idx,
                   linked_ta, keyboards, textarea, popovers, event_cb, hidden, tick, origin>>

\* the LV_SYMBOL_NEW_LINE button: numbers -> lower, anything else -> numbers
NumClick ==
    /\ Budget
    /\ t9_mode' = NumToggle(t9_mode)
    /\ hist' = Quiet("num", -1)
    /\ run' = NoRun
    /\ env' = Spend
    /\ UNCHANGED <<t9_btn_cycle_idx, t9_btn_last_press_time, last_char_idx,
                   linked_ta, keyboards, textarea, popovers, event_cb, hidden, tick, origin>>

SpaceClick ==
    /\ Budget
    /\ textarea' = IF linked_ta = NULL THEN textarea
                   ELSE [textarea EXCEPT ![linked_ta] = lv_textarea_add_text(@, " ")]
    /\ origin' = IF linked_ta = NULL THEN origin
                 ELSE [origin EXCEPT ![linked_ta] = Append(@, -1)]
    /\ hist' = [Quiet("space", -1) EXCEPT
                   !.char = " ", !.op = IF linked_ta # NULL THEN "insert" ELSE "none"]
    /\ run' = NoRun
    /\ env' = Spend
    /\ UNCHANGED <<t9_mode, t9_btn_cycle_idx, t9_btn_last_press_time, last_char_idx,
                   linked_ta, keyboards, popovers, event_cb, hidden, tick>>

\* the chain of lv_strcmp on the label of a helper button
HelperClick(keyboard, label) ==
    IF label = LV_SYMBOL_BACKSPACE THEN BackspaceClick
    ELSE IF label = LV_SYMBOL_OK THEN OkClick(keyboard)
    ELSE IF label = LV_SYMBOL_CLOSE THEN CloseClick(keyboard)
    ELSE IF label = "ABC" \/ label = "abc" THEN AbcClick
    ELSE IF label = LV_SYMBOL_NEW_LINE THEN NumClick
    ELSE IF label = "space" THEN SpaceClick
    ELSE FALSE

\* t9_btn_event_cb for the button at (row, col) of a keyboard and an event code; only the
\* digit buttons are registered for LV_EVENT_LONG_PRESSED
t9_btn_event_cb(keyboard, row, col, code) ==
    LET char_idx == get_btn_char_idx(row, col)
    IN  IF char_idx >= 0
        THEN IF code = LV_EVENT_LONG_PRESSED
             THEN DigitLongPress(char_idx)
             ELSE DigitClick(char_idx)
        ELSE code = LV_EVENT_CLICKED /\ HelperClick(keyboard, BtnLabel(row, col))

\* lv_keyboard_t9_set_event_cb(keyboard, cb)
lv_keyboard_t9_set_event_cb(keyboard) ==
    /\ Budget
    /\ event_cb[keyboard] = NULL
    /\ event_cb' = [event_cb EXCEPT ![keyboard] = "cb"]
    /\ hist' = Quiet("set_event_cb", -1)
    /\ run' = NoRun
    /\ env' = Spend
    /\ UNCHANGED <<t9_mode, t9_btn_cycle_idx, t9_btn_last_press_time, last_char_idx,
                   linked_ta, keyboards, textarea, popovers, hidden, tick, origin>>

\* lv_keyboard_t9_init(parent, ta): one more keyboard object, whose buttons
\* are registered with t9_btn_event_cb; the file-scope linked_ta is set to ta
\* and the rest of the file-scope state stays as it is
lv_keyboard_t9_init(keyboard, ta) ==
    /\ Budget
    /\ keyboards[keyboard] = NULL
    /\ linked_ta' = ta
    /\ keyboards' = [keyboards EXCEPT ![keyboard] = ta]
    /\ hist' = Quiet("init", -1)
    /\ run' = NoRun
    /\ env' = Spend
    /\ UNCHANGED <<t9_mode, t9_btn_cycle_idx, t9_btn_last_press_time, last_char_idx,
                   textarea, popovers, event_cb, hidden, tick, origin>>

----------------------------------------------------------------------------

ButtonEvent ==
    \E row \in 0 .. (T9_KEYBOARD_ROWS - 1), col \in 0 .. (T9_KEYBOARD_COLS - 1),
       code \in {LV_EVENT_CLICKED, LV_EVENT_LONG_PRESSED} :
        \E keyboard \in Keyboards :
            keyboards[keyboard] # NULL /\ t9_btn_event_cb(keyboard, row, col, code)

SymbolEvent ==
    \E p \in 1 .. Len(popovers) :
        \E i \in 1 .. Len(popovers[p]) :
            i <= MaxSymPick /\ t9_symbol_btn_event_cb(p, i)

PopoverCloseEvent ==
    \E p \in 1 .. Len(popovers) : t9_popover_close_btn_event_cb(p)

CallbackEvent ==
    \E keyboard \in Keyboards :
        keyboards[keyboard] # NULL /\ lv_keyboard_t9_set_event_cb(keyboard)

ClockEvent == \E d \in TickSteps : Tick(d)

Next ==
    \/ ButtonEvent
    \/ SymbolEvent
    \/ PopoverCloseEvent
    \/ CallbackEvent
    \/ ClockEvent

\* the application creates another keyboard
CreateEvent ==
    \E keyboard \in Keyboards, ta \in TextAreas : lv_keyboard_t9_init(keyboard, ta)

NextTwo ==
    \/ ButtonEvent
    \/ SymbolEvent
    \/ PopoverCloseEvent
    \/ CallbackEvent
    \/ ClockEvent
    \/ CreateEvent

Spec == Init /\ [][Next]_vars

SpecRun == InitRun /\ [][Next]_vars

SpecTwo == InitTwo /\ [][NextTwo]_vars

SpecWrap == InitWrap /\ [][Next]_vars

----------------------------------------------------------------------------
(* The claims *)

\* the digit printed on a key
DigitOf(char_idx) == <<"1", "2", "3", "4", "5", "6", "7", "8", "9", "0">>[char_idx + 1]

\* the last handler was a click on a digit key
Clicked == hist.kind = "click"

\* that click committed the first candidate of its key as a new character
FreshInsert ==
    /\ hist.idx = 0
    /\ hist.op = "insert"
    /\ hist.char = ActiveChars(hist.key, t9_mode)[1]

\* C1: in a run of clicks on one key, each within the timeout of the one
\* before and with no other handler in between, that begins with a click
\* that starts a run, click number j (1 <= j <= n + 1, n the number of
\* candidates of the key in the mode) commits candidate (j - 1) mod n; the
\* first click appends it and each later one replaces the last character, so
\* the text is the text before the run plus that one character.
C1_RunCyclesThroughCandidates ==
    LET seq == ActiveChars(hist.key, t9_mode)
        n == Len(seq)
    IN  (Clicked /\ run.n >= 1 /\ run.n <= n + 1) =>
            /\ hist.idx = (run.n - 1) % n
            /\ hist.char = seq[hist.idx + 1]
            /\ hist.op = IF run.n = 1 THEN "insert" ELSE "replace"
            /\ Text = Append(run.base, hist.char)

\* a run of 18 clicks on key '1', whose 17 candidates wrapped to the first
C1_Witness ==
    /\ Clicked /\ hist.key = 0
    /\ run.n = Len(t9_btn_symbols_1) + 1
    /\ Text = Append(run.base, ":")

\* C2: a click on a key more than the timeout after the previous click on
\* that key commits the key's first candidate as a new character.
C2_LateClickInserts ==
    (Clicked /\ hist.gap > T9_CYCLE_TIMEOUT_MS) => FreshInsert

\* the key was also the digit key clicked last, so only the time made it fresh
C2_Witness ==
    /\ Clicked /\ hist.gap > T9_CYCLE_TIMEOUT_MS /\ hist.prev = hist.key
    /\ FreshInsert /\ Len(Text) = 2

\* C3: a click on a key when the digit key clicked last was another key
\* commits the key's first candidate as a new character, whatever the time
\* since either key was clicked.
C3_OtherKeyNeverContinues ==
    (Clicked /\ hist.prev \in CharIdx /\ hist.prev # hist.key) => FreshInsert

\* A, B, A at one timestamp: the third click follows B and is within the
\* timeout of A's first click, and three characters stand in the text
C3_Witness ==
    /\ Clicked /\ hist.prev \in CharIdx /\ hist.prev # hist.key
    /\ hist.gap = 0 /\ env.elapsed[hist.prev] = 0
    /\ FreshInsert /\ Len(Text) = 3

\* C4: the first click on a digit key after a handler that changed the mode
\* commits the key's first candidate as a new character.
C4_ToggleResetsCycle ==
    [][\A k \in CharIdx :
          (hist.kind \in {"abc", "num"} /\ DigitClick(k))
              => (hist'.idx = 0 /\ hist'.op = "insert")]_vars

\* C5: no click on a digit key reads its candidate string past the terminator.
C5_NoReadPastTerminator == ~hist.oob

\* C6: the first click on a digit key after the space button commits the
\* key's first candidate as a new character.
C6_SpaceBreaksCycle ==
    [][\A k \in CharIdx :
          (hist.kind = "space" /\ DigitClick(k))
              => (hist'.idx = 0 /\ hist'.op = "insert")]_vars

\* C7: the first click on a digit key after a symbol was picked from a
\* popover commits the key's first candidate as a new character.
C7_SymbolBreaksCycle ==
    [][\A k \in CharIdx :
          (hist.kind = "sym" /\ DigitClick(k))
              => (hist'.idx = 0 /\ hist'.op = "insert")]_vars

C9_NumbersModeYieldsDigit ==
    (Clicked /\ t9_mode = T9_MODE_NUMBERS) => hist.char = DigitOf(hist.key)

\* C10 as claimed: a long-press on key '1' in lower mode offers ! " # $ % & '
\* ( ) * + , - . / in that order.
C10_Key1OffersBangSet ==
    (hist.kind = "long" /\ hist.key = 0 /\ t9_mode = T9_MODE_LOWER) =>
        popovers[Len(popovers)] =
            <<"!", "\"", "#", "$", "%", "&", "'", "(", ")", "*", "+", ",", "-", ".", "/">>

\* C10 as amended: a long-press on key '1' in lower mode offers the 17 symbols
\* : ; < = > ? @ [ \ ] ^ _ (grave accent) { | } ~ in that order; the 15
\* symbols ! " # $ % & ' ( ) * + , - . / are what a long-press on key '0' offers.
C10_Key1OffersColonSet ==
    /\ (hist.kind = "long" /\ hist.key = 0 /\ t9_mode = T9_MODE_LOWER) =>
          popovers[Len(popovers)] =
              <<":", ";", "<", "=", ">", "?", "@", "[", "\\", "]", "^", "_", GRAVE,
                "{", "|", "}", "~">>
    /\ (hist.kind = "long" /\ hist.key = 9 /\ t9_mode = T9_MODE_LOWER) =>
          popovers[Len(popovers)] =
              <<"!", "\"", "#", "$", "%", "&", "'", "(", ")", "*", "+", ",", "-", ".", "/">>

C10_Witness ==
    /\ hist.kind = "long" /\ hist.key = 0 /\ t9_mode = T9_MODE_LOWER
    /\ Len(popovers) = 1 /\ Len(popovers[1]) = 17

\* C11: a click on the button of symbol c of an open popover appends the one
\* character c to the text, deletes that popover and no other, and leaves the
\* mode and every key's cycle position and last press time as they were.
C11_SymbolPickAppendsAndCloses ==
    [][\A p \in 1 .. Len(popovers) : \A i \in 1 .. Len(popovers[p]) :
          t9_symbol_btn_event_cb(p, i) =>
              /\ textarea'[linked_ta].text = Append(Text, popovers[p][i])
              /\ \A t \in TextAreas \ {linked_ta} : textarea'[t] = textarea[t]
              /\ Len(popovers') = Len(popovers) - 1
              /\ \A q \in 1 .. Len(popovers') :
                    popovers'[q] = popovers[IF q < p THEN q ELSE q + 1]
              /\ UNCHANGED <<t9_mode, t9_btn_cycle_idx, t9_btn_last_press_time>>]_vars

\* ';' picked from the popover of key '1' after key '2' was clicked twice
C11_Witness ==
    /\ hist.kind = "sym" /\ hist.char = ";"
    /\ Text = <<"b", ";">> /\ popovers = <<>>
    /\ t9_btn_cycle_idx[1] = 2

\* C13: a popover is opened only when none is open, and while one is open a
\* click or long-press on a button of the keyboard changes nothing: not the
\* text, the mode, the cycle state, the key clicked last or the popovers.
C13_PopoverIsExclusive ==
    [][(popovers # <<>> /\ ButtonEvent)
          => UNCHANGED <<t9_mode, t9_btn_cycle_idx, t9_btn_last_press_time,
                         last_char_idx, textarea, popovers>>]_vars

C15_AbcFlipsCaseOnly ==
    [][AbcClick =>
          /\ t9_mode = T9_MODE_NUMBERS => t9_mode' = T9_MODE_NUMBERS
          /\ t9_mode = T9_MODE_LOWER => t9_mode' = T9_MODE_UPPER
          /\ t9_mode = T9_MODE_UPPER => t9_mode' = T9_MODE_LOWER]_vars

\* upper entered by the button ('A' typed in it), then the button clicked in
\* numbers mode
C15_Witness ==
    /\ hist.kind = "abc_ignored" /\ t9_mode = T9_MODE_NUMBERS
    /\ Text = <<"A">>

\* C16: the mode is lower at first and changes only in the two toggle
\* buttons; the numbers toggle turns lower and upper into numbers and numbers
\* into lower, so the mode that follows numbers is always lower.
C16_NumbersReturnsToLower ==
    /\ t9_mode = T9_MODE_LOWER
    /\ [][/\ t9_mode' # t9_mode => (AbcClick \/ NumClick)
          /\ NumClick => t9_mode' = IF t9_mode = T9_MODE_NUMBERS
                                    THEN T9_MODE_LOWER ELSE T9_MODE_NUMBERS
          /\ (t9_mode = T9_MODE_NUMBERS /\ t9_mode' # T9_MODE_NUMBERS)
                => t9_mode' = T9_MODE_LOWER]_vars

\* numbers entered from upper ('A' typed in it) and left again: the mode is lower
C16_Witness ==
    /\ hist.kind = "num" /\ t9_mode = T9_MODE_LOWER
    /\ Text = <<"A">>

\* C17: the OK button calls the registered callback with the ready event and
\* the close button calls it with the cancel event, and neither changes the
\* mode, a key's cycle position or last press time, the key clicked last or
\* the text.
C17_NotifyLeavesState ==
    [][\A kb \in Keyboards : (OkClick(kb) \/ CloseClick(kb)) =>
          /\ (OkClick(kb) /\ event_cb[kb] # NULL)
                => hist'.notified = LV_KEYBOARD_T9_EVENT_READY
          /\ (CloseClick(kb) /\ event_cb[kb] # NULL)
                => hist'.notified = LV_KEYBOARD_T9_EVENT_CANCEL
          /\ UNCHANGED <<t9_mode, t9_btn_cycle_idx, t9_btn_last_press_time,
                         last_char_idx, linked_ta, textarea>>]_vars

\* the OK button clicked with a callback registered, after key '2' was clicked
C17_Witness ==
    /\ hist.kind = "ok" /\ hist.notified = LV_KEYBOARD_T9_EVENT_READY
    /\ Text = <<"a">> /\ last_char_idx = 1 /\ t9_btn_cycle_idx[1] = 1

\* C18: a click on the digit key clicked last exactly the timeout (1000 ms)
\* after the previous click on it continues the cycle: it commits the
\* candidate at the key's stored cycle position (the first one when the
\* position is at the terminator) in place of the last character of the
\* text; the same click one millisecond later commits the first candidate
\* as a new character.
C18_BoundaryGapContinues ==
    [][\A k \in CharIdx :
          LET chars == ActiveChars(k, t9_mode)
              i == t9_btn_cycle_idx[k]
          IN  (DigitClick(k) /\ last_char_idx = k) =>
                /\ env.elapsed[k] = T9_CYCLE_TIMEOUT_MS =>
                      /\ hist'.idx \in (IF i < Len(chars) THEN {i}
                                       ELSE IF i = Len(chars) THEN {0} ELSE {0, i})
                      /\ i <= Len(chars) => hist'.char = chars[hist'.idx + 1]
                      /\ Text' = IF hist'.char = " " THEN Text
                                 ELSE Append(DropLast(Text), hist'.char)
                /\ env.elapsed[k] = T9_CYCLE_TIMEOUT_MS + 1 =>
                      /\ hist'.idx = 0
                      /\ hist'.char = chars[1]
                      /\ Text' = Append(Text, chars[1])]_vars

\* key '2' clicked again exactly 1000 ms after it typed 'a': 'b' stands in its place
C18_Witness ==
    /\ Clicked /\ hist.prev = hist.key /\ hist.gap = T9_CYCLE_TIMEOUT_MS
    /\ hist.idx = 1 /\ hist.op = "replace" /\ Text = <<"b">>

\* C19: the backspace button deletes the last character of the text, or
\* nothing when the text is empty, and leaves the mode, every key's cycle
\* position and last press time and the key clicked last as they were.
C19_BackspaceDeletesLast ==
    [][BackspaceClick =>
          /\ Text' = DropLast(Text)
          /\ UNCHANGED <<t9_mode, t9_btn_cycle_idx, t9_btn_last_press_time,
                         last_char_idx, linked_ta>>]_vars

\* keys '2' and '7' clicked, then backspace: 'p' is gone, key '7' is still
\* the key clicked last
C19_Witness ==
    /\ hist.kind = "backspace" /\ hist.op = "delete"
    /\ Text = <<"a">> /\ last_char_idx = 6 /\ t9_btn_cycle_idx[6] = 1

\* C20: a click on a digit key that replaces the last character of the text
\* deletes the character that the latest click on that same key committed,
\* never one that a click on another key, the space button or a symbol of a
\* popover committed, whatever handlers ran in between.
C20_ReplaceDeletesOwnCharacter ==
    [][\A k \in CharIdx :
          (DigitClick(k) /\ hist'.op = "replace")
              => origin[linked_ta][Len(Text)] = k]_vars

\* C21: with two keyboards created, an event delivered to a button of one
\* of them leaves the other one's engine state as it was: the text of the
\* textarea the other was created for, the mode, the cycle positions and last
\* press times, and the key clicked last.
C21_KeyboardsIndependent ==
    [][\A kb \in Keyboards : \A other \in Keyboards \ {kb} :
          (/\ keyboards[kb] # NULL /\ keyboards[other] # NULL
           /\ keyboards[kb] # keyboards[other]
           /\ \E row \in 0 .. (T9_KEYBOARD_ROWS - 1), col \in 0 .. (T9_KEYBOARD_COLS - 1),
                 code \in {LV_EVENT_CLICKED, LV_EVENT_LONG_PRESSED} :
                   t9_btn_event_cb(kb, row, col, code))
              => /\ textarea'[keyboards[other]] = textarea[keyboards[other]]
                 /\ UNCHANGED <<t9_mode, t9_btn_cycle_idx, t9_btn_last_press_time,
                                last_char_idx>>]_vars

\* C22: a click on the digit key clicked last continues the cycle exactly
\* when at most the timeout of real time has passed since the previous click
\* on it, also when the tick counter wrapped around 2^32 in between and the
\* tick of the click is below the tick of the previous one: within the
\* timeout the click commits the candidate at the stored cycle position in
\* place of the last character, after it the first candidate as a new one.
C22_WrapKeepsContinuation ==
    [][\A k \in CharIdx :
          LET chars == ActiveChars(k, t9_mode)
              i == t9_btn_cycle_idx[k]
              gap == env.elapsed[k]
          IN  (DigitClick(k) /\ last_char_idx = k) =>
                IF gap <= T9_CYCLE_TIMEOUT_MS
                THEN /\ hist'.idx \in (IF i < Len(chars) THEN {i}
                                       ELSE IF i = Len(chars) THEN {0} ELSE {0, i})
                     /\ Text' = IF hist'.char = " " THEN Text
                                ELSE Append(DropLast(Text), hist'.char)
                ELSE /\ hist'.idx = 0
                     /\ Text' = Append(Text, chars[1])]_vars

\* key '2' clicked before the wrap and again after it, within the timeout:
\* the tick of the second click is below the time since the first
C22_Witness ==
    /\ Clicked /\ hist.key = 1 /\ hist.prev = 1
    /\ tick[1] = 0 /\ tick[2] < hist.gap /\ hist.gap <= T9_CYCLE_TIMEOUT_MS
    /\ hist.idx = 1 /\ hist.op = "replace" /\ Text = <<"b">>

====
